---- MODULE Spec2Model ----
(***************************************************************************)
(* The task board of src/src/App.js (the App component that starts at      *)
(* line 1376): the task store `columns`, the modal form, the clock read    *)
(* by Date.now(), and the handlers that mutate the store.                  *)
(*                                                                         *)
(* A task is a JavaScript object, modelled as a function from its keys to  *)
(* their values.  A key may be absent: the sample task and a task created  *)
(* outside Doing carry no isRunning / startedAt / elapsedMs key, and the   *)
(* object spread {...task, ...form} of saveTask overrides exactly the keys *)
(* the form holds.                                                         *)
(*                                                                         *)
(* No handler tests showForm: a drop or a subtask toggle can be made while *)
(* the form is open, and the form then holds the task as it was when       *)
(* openEditForm copied it.  The form's title and status can be changed;    *)
(* its description, priority, assignee, due date and subtasks keep the     *)
(* values openAddForm or openEditForm gave them.                           *)
(*                                                                         *)
(* Six specifications share the state and the handlers.  Spec is the       *)
(* board driven through its cards and its form.  SpecStale adds the drops  *)
(* whose draggableId is no card of the source column.  SpecSort is one     *)
(* column of sample tasks under its sort controls and the due-date         *)
(* filters, for makeComparator and matchesFilters.  SpecSearch is the      *)
(* projection of the store into displayed lists under the search box,      *)
(* every filter and the sort controls.  SpecColumns is the sort controls   *)
(* of the four columns.  SpecDrop is the drops made on the displayed cards *)
(* of a searched board.                                                    *)
(***************************************************************************)
EXTENDS Integers, Sequences, FiniteSets, TLC

VARIABLES
    columns,       \* useState(makeInitialColumns()): status -> list of tasks
    showForm,      \* useState(false): the modal form is rendered
    editingId,     \* useState(null): id of the task being edited, or Null
    form,          \* useState({...}): the fields of the modal form
    now,           \* the reading Date.now() returns
    celebrations,  \* fireConfetti()/playCoin() signals of the latest handler
    colSort,       \* useState(defaultSortForAll()): status -> {key, dir}
    query,         \* useState(""): the text of the search box
    filters,       \* useState({...}): the metadata filters
    fault          \* an uncaught TypeError has unmounted the App

\* the state the board's projection reads besides the store
viewVars == <<colSort, query, filters>>

vars == <<columns, showForm, editingId, form, now, celebrations, viewVars, fault>>

----------------------------------------------------------------------------
(* Bounds of the model *)

\* the clock advances at most this many milliseconds past Epoch
MaxTicks == 1

\* the store holds at most this many tasks (creation is disabled beyond it)
MaxTasks == 2

----------------------------------------------------------------------------
(* Constants of the program *)

\* JavaScript null (editingId, form.id, startedAt)
Null == -1

\* the first reading of Date.now(); any reading is a positive integer
Epoch == 1000

STATUSES == <<"To Do", "Doing", "Review", "Done">>

StatusSet == {STATUSES[i] : i \in 1..Len(STATUSES)}

\* the titles typed into the form: whitespace only, and a real one (the form of
\* openAddForm starts with the empty title)
Titles == {" ", "a"}

\* the subtask checkboxes of a card that get clicked (positions in t.subtasks)
ToggledSubtasks == {1}

makeInitialColumns ==
    [s \in StatusSet |->
        IF s = "To Do"
        THEN << [ id |-> 1,
                  title |-> "Sample task",
                  description |-> "Try dragging me, start a timer in Doing, and add subtasks",
                  status |-> "To Do",
                  priority |-> "Medium",
                  assignee |-> "Alex",
                  dueDate |-> "2025-12-10",
                  subtasks |-> << [id |-> 101, title |-> "First subtask", done |-> FALSE],
                                  [id |-> 102, title |-> "Second subtask", done |-> TRUE] >> ] >>
        ELSE << >>]

\* the form of useState at line 1408 and of openAddForm
EmptyForm ==
    [ id |-> Null, title |-> "", description |-> "", priority |-> "Medium",
      assignee |-> "", dueDate |-> "", status |-> "To Do", subtasks |-> << >> ]

\* line 1222: every column starts unsorted
defaultSortForAll == [s \in StatusSet |-> [key |-> "manual", dir |-> "asc"]]

\* the filters of useState at line 1385: every filter unset
EmptyFilters ==
    [ dueAfter |-> "", dueBefore |-> "", priority |-> "", assignee |-> "",
      minMinutes |-> "", maxMinutes |-> "" ]

----------------------------------------------------------------------------
(* Utilities *)

\* {...a, ...b}: the keys of b override those of a
Spread(a, b) == b @@ a

\* trim that strips nothing
TrimKeepsWhitespace(s) == s

\* String.prototype.trim on the titles of the model
Trim(s) == IF s = " " THEN "" ELSE s

\* t.isRunning as a condition: the key is present and true
IsRunning(t) == "isRunning" \in DOMAIN t /\ t.isRunning

\* t.startedAt as a condition: present, not null, not 0
HasStartedAt(t) == "startedAt" \in DOMAIN t /\ t.startedAt # Null /\ t.startedAt # 0

\* t.elapsedMs || 0
ElapsedOrZero(t) == IF "elapsedMs" \in DOMAIN t THEN t.elapsedMs ELSE 0

totalElapsed(t) ==
    ElapsedOrZero(t) + (IF IsRunning(t) /\ HasStartedAt(t) THEN now - t.startedAt ELSE 0)

\* stopTimer without `startedAt: null`
stopTimerKeepsStartedAt(t) ==
    IF IsRunning(t) /\ HasStartedAt(t)
    THEN Spread(t, [isRunning |-> FALSE,
                    elapsedMs |-> ElapsedOrZero(t) + (now - t.startedAt)])
    ELSE Spread(t, [isRunning |-> FALSE, elapsedMs |-> ElapsedOrZero(t)])

stopTimer(t) ==
    IF IsRunning(t) /\ HasStartedAt(t)
    THEN Spread(t, [isRunning |-> FALSE, startedAt |-> Null,
                    elapsedMs |-> ElapsedOrZero(t) + (now - t.startedAt)])
    ELSE Spread(t, [isRunning |-> FALSE, startedAt |-> Null,
                    elapsedMs |-> ElapsedOrZero(t)])

startTimer(t) ==
    Spread(t, [isRunning |-> TRUE, startedAt |-> now, elapsedMs |-> ElapsedOrZero(t)])

\* list.findIndex((x) => x.id === id), 1-based; 0 when there is none
FindIndex(list, id) ==
    IF \E i \in 1..Len(list) : list[i].id = id
    THEN CHOOSE i \in 1..Len(list) :
            list[i].id = id /\ \A j \in 1..(i - 1) : list[j].id # id
    ELSE 0

\* list.splice(i, 1) for a 1-based i in the list
RemoveAt(list, i) == SubSeq(list, 1, i - 1) \o SubSeq(list, i + 1, Len(list))

\* list.splice(index, 0, x) for a 0-based index (an index past the end appends)
InsertAt(list, index, x) ==
    LET k == IF index > Len(list) THEN Len(list) ELSE index
    IN  SubSeq(list, 1, k) \o <<x>> \o SubSeq(list, k + 1, Len(list))

\* STATUSES.find((s) => next[s].some((x) => x.id === id)); one must exist
FindStatus(cols, id) ==
    STATUSES[CHOOSE k \in 1..Len(STATUSES) :
        /\ FindIndex(cols[STATUSES[k]], id) # 0
        /\ \A j \in 1..(k - 1) : FindIndex(cols[STATUSES[j]], id) = 0]

HasId(cols, id) == \E s \in StatusSet : FindIndex(cols[s], id) # 0

TaskCount == Len(columns["To Do"]) + Len(columns["Doing"])
             + Len(columns["Review"]) + Len(columns["Done"])

----------------------------------------------------------------------------
(* Initial state *)

Init ==
    /\ columns = makeInitialColumns
    /\ showForm = FALSE
    /\ editingId = Null
    /\ form = EmptyForm
    /\ now = Epoch
    /\ celebrations = 0
    /\ colSort = defaultSortForAll
    /\ query = ""
    /\ filters = EmptyFilters
    /\ fault = FALSE

----------------------------------------------------------------------------
(* The clock *)

\* one millisecond passes
Tick ==
    /\ now < Epoch + MaxTicks
    /\ now' = now + 1
    /\ UNCHANGED <<columns, showForm, editingId, form, celebrations, viewVars, fault>>

----------------------------------------------------------------------------
(* The modal form *)

openAddForm ==
    /\ editingId' = Null
    /\ form' = EmptyForm
    /\ showForm' = TRUE
    /\ celebrations' = 0
    /\ UNCHANGED <<columns, now, viewVars, fault>>

\* a click on the card of task columns[col][i]
openEditForm(col, i) ==
    LET task == columns[col][i]
    IN  /\ editingId' = task.id
        /\ form' = task
        /\ showForm' = TRUE
        /\ celebrations' = 0
        /\ UNCHANGED <<columns, now, viewVars, fault>>

\* the Cancel button and a click on the backdrop
cancelForm ==
    /\ showForm
    /\ showForm' = FALSE
    /\ celebrations' = 0
    /\ UNCHANGED <<columns, editingId, form, now, viewVars, fault>>

\* onChange of the Title input
setFormTitle(v) ==
    /\ showForm
    /\ form' = Spread(form, [title |-> v])
    /\ celebrations' = 0
    /\ UNCHANGED <<columns, showForm, editingId, now, viewVars, fault>>

\* onChange of the Status select
setFormStatus(s) ==
    /\ showForm
    /\ form' = Spread(form, [status |-> s])
    /\ celebrations' = 0
    /\ UNCHANGED <<columns, showForm, editingId, now, viewVars, fault>>

----------------------------------------------------------------------------
(* saveTask *)

\* lines 1561-1565: the timer change of an edit whose status changes
SaveTimer(task, oldStatus, newStatus) ==
    IF oldStatus # newStatus
    THEN LET stopped == IF oldStatus = "Doing" THEN stopTimer(task) ELSE task
         IN  IF newStatus = "Doing" THEN startTimer(stopped) ELSE stopped
    ELSE task

\* lines 1552-1569: the store after the edit of the task with id `id` by form f
SaveEdit(cols, id, f) ==
    LET oldStatus == FindStatus(cols, id)
        oldIdx    == FindIndex(cols[oldStatus], id)
        task      == SaveTimer(Spread(cols[oldStatus][oldIdx], f), oldStatus, f.status)
        removed   == [cols EXCEPT ![oldStatus] = RemoveAt(cols[oldStatus], oldIdx)]
    IN  [removed EXCEPT ![f.status] = Append(removed[f.status], task)]

\* lines 1571-1575: the celebration of an edit
SaveEditCelebrates(cols, id, f) ==
    f.status = "Done" /\ FindStatus(cols, id) # "Done"

\* lines 1577-1579: the task a create adds
NewTask(f) ==
    LET newTask == Spread(f, [id |-> now])
    IN  IF newTask.status = "Doing" THEN startTimer(newTask) ELSE newTask

\* lines 1580: the store after a create
SaveCreate(cols, f) ==
    LET newTask == NewTask(f)
    IN  [cols EXCEPT ![newTask.status] = Append(cols[newTask.status], newTask)]

\* The edit branch looks editingId up in the store; with no such task line
\* 1555 throws.  The form is opened on a stored task and a task leaves the
\* store only through deleteTask, which clears editingId, so HasId holds
\* whenever the branch is taken.  The create branch stops at MaxTasks tasks.
saveTask ==
    /\ showForm
    /\ IF Trim(form.title) = ""
       THEN /\ celebrations' = 0
            /\ UNCHANGED <<columns, showForm, editingId, form, now, viewVars, fault>>
       ELSE /\ IF editingId # Null
               THEN /\ HasId(columns, editingId)
                    /\ columns' = SaveEdit(columns, editingId, form)
                    /\ celebrations' =
                         IF SaveEditCelebrates(columns, editingId, form) THEN 1 ELSE 0
               ELSE /\ TaskCount < MaxTasks
                    /\ columns' = SaveCreate(columns, form)
                    /\ celebrations' = IF NewTask(form).status = "Done" THEN 1 ELSE 0
            /\ showForm' = FALSE
            /\ editingId' = Null
            /\ UNCHANGED <<form, now, viewVars, fault>>

----------------------------------------------------------------------------
(* deleteTask *)

\* lines 1596-1599: the store without the tasks of id `id` in the first bucket
\* that holds one
DeleteById(cols, id) ==
    LET status == FindStatus(cols, id)
    IN  [cols EXCEPT ![status] = SelectSeq(cols[status], LAMBDA t : t.id # id)]

deleteTask ==
    /\ showForm
    /\ editingId # Null
    /\ HasId(columns, editingId)
    /\ columns' = DeleteById(columns, editingId)
    /\ showForm' = FALSE
    /\ editingId' = Null
    /\ celebrations' = 0
    /\ UNCHANGED <<form, now, viewVars, fault>>

----------------------------------------------------------------------------
(* onDragEnd *)

\* MoveTask without `task.status = toCol`
MoveTaskKeepsStatus(task, fromCol, toCol) ==
    LET stopped == IF fromCol = "Doing" THEN stopTimer(task) ELSE task
    IN  IF toCol = "Doing" THEN startTimer(stopped) ELSE stopped

\* lines 1631-1634: timer and status of a task moved across columns
MoveTask(task, fromCol, toCol) ==
    LET stopped == IF fromCol = "Doing" THEN stopTimer(task) ELSE task
        started == IF toCol = "Doing" THEN startTimer(stopped) ELSE stopped
    IN  Spread(started, [status |-> toCol])

\* lines 1616-1639: the store after the drop of the card `draggableId`
DragResult(cols, draggableId, fromCol, toCol, index) ==
    LET idx     == FindIndex(cols[fromCol], draggableId)
        task    == cols[fromCol][idx]
        removed == [cols EXCEPT ![fromCol] = RemoveAt(cols[fromCol], idx)]
    IN  IF fromCol = toCol
        THEN [removed EXCEPT ![toCol] = InsertAt(removed[toCol], index, task)]
        ELSE [removed EXCEPT
                ![toCol] = InsertAt(removed[toCol], index, MoveTask(task, fromCol, toCol))]

\* lines 1613, 1638, 1643: `enteredDone` is assigned inside the updater given to
\* setColumns and read after setColumns returns.  React runs an updater either
\* at once (`eager`) or when it next renders, after the handler has returned;
\* in the second case the handler reads the initial false.
DragCelebrates(fromCol, toCol, eager) ==
    LET enteredDone == eager /\ fromCol # toCol /\ toCol = "Done"
    IN  enteredDone /\ fromCol # "Done"

\* the drop of card i of column fromCol at position `index` of column toCol
onDragEnd(fromCol, i, toCol, index, eager) ==
    /\ columns' = DragResult(columns, columns[fromCol][i].id, fromCol, toCol, index)
    /\ celebrations' = IF DragCelebrates(fromCol, toCol, eager) THEN 1 ELSE 0
    /\ UNCHANGED <<showForm, editingId, form, now, viewVars, fault>>

\* line 1608: a drop outside every column
onDragEndNoDestination ==
    /\ celebrations' = 0
    /\ UNCHANGED <<columns, showForm, editingId, form, now, viewVars, fault>>

----------------------------------------------------------------------------
(* onDragEnd with a draggableId that is not in the source bucket *)

\* fromList[-1]: JavaScript undefined
Undefined == [undefined |-> TRUE]

\* the draggableId of a drop result: the sample task's id and a created one's
DraggableIds == {1, Epoch}

\* lines 1616-1629 with idx = -1 and fromCol = toCol: splice(-1, 1) removes
\* the last task of the bucket and splice(index, 0, undefined) inserts the
\* undefined `task`
StaleDragResult(cols, col, index) ==
    LET fromList == cols[col]
        removed  == SubSeq(fromList, 1, Len(fromList) - 1)
    IN  [cols EXCEPT ![col] = InsertAt(removed, index, Undefined)]

\* The drop of a card whose id findIndex does not find in next[fromCol].
\* Same column: the updater returns StaleDragResult, and the render that
\* follows throws at t.assignee (line 1399) on the undefined entry.
\* Across columns: the updater throws at t.elapsedMs (lines 1433, 1439) or at
\* task.status = toCol (line 1634), so the store keeps its value.
\* No error boundary catches either: React unmounts the App.
onDragEndStale(draggableId, fromCol, toCol, index) ==
    /\ FindIndex(columns[fromCol], draggableId) = 0
    /\ columns' = IF fromCol = toCol
                  THEN StaleDragResult(columns, fromCol, index)
                  ELSE columns
    /\ fault' = TRUE
    /\ celebrations' = 0
    /\ UNCHANGED <<showForm, editingId, form, now, viewVars>>

----------------------------------------------------------------------------
(* toggleSubtask *)

\* lines 1660-1670
ToggleResult(cols, taskId, col, subId) ==
    LET idx == FindIndex(cols[col], taskId)
    IN  IF idx = 0 THEN cols
        ELSE LET t    == cols[col][idx]
                 subs == [k \in 1..Len(t.subtasks) |->
                            IF t.subtasks[k].id = subId
                            THEN Spread(t.subtasks[k], [done |-> ~t.subtasks[k].done])
                            ELSE t.subtasks[k]]
             IN  [cols EXCEPT ![col][idx] = Spread(t, [subtasks |-> subs])]

\* the checkbox of subtask j on card i of column col
toggleSubtask(col, i, j) ==
    /\ columns' = ToggleResult(columns, columns[col][i].id, col,
                               columns[col][i].subtasks[j].id)
    /\ celebrations' = 0
    /\ UNCHANGED <<showForm, editingId, form, now, viewVars, fault>>

----------------------------------------------------------------------------
(* JavaScript numbers and strings of the comparator and the filters *)

\* Number.POSITIVE_INFINITY: a value above every finite number of the model
Infinity == 1000000

\* NaN: the time of an Invalid Date
NaN == 2000000

\* x !== y on numbers: NaN differs from everything, itself included
StrictNotEqual(x, y) == x = NaN \/ y = NaN \/ x # y

\* x - y on numbers
Minus(x, y) ==
    IF x = NaN \/ y = NaN THEN NaN
    ELSE IF x \in {Infinity, -Infinity}
         THEN (IF y = x THEN NaN ELSE x)
         ELSE IF y \in {Infinity, -Infinity} THEN -y ELSE x - y

\* mul * x for mul = 1 or -1
Times(mul, x) == IF x = NaN THEN NaN ELSE mul * x

\* x >= y, x <= y, x < y and x > y on numbers: false when either is NaN
\* >= read as >
GreaterOrEqualIsStrict(x, y) == x # NaN /\ y # NaN /\ x > y

GreaterOrEqual(x, y) == x # NaN /\ y # NaN /\ x >= y

LessOrEqual(x, y) == x # NaN /\ y # NaN /\ x <= y

LessThan(x, y) == x # NaN /\ y # NaN /\ x < y

GreaterThan(x, y) == x # NaN /\ y # NaN /\ x > y

\* new Date(s).getTime() for the date strings of the model, in days since
\* 1970-01-01 (the milliseconds are 86400000 times as much); a string that is
\* no date gives an Invalid Date, whose time is NaN
getTime(s) ==
    CASE s = "2025-01-01" -> 20089
      [] s = "2025-02-01" -> 20120
      [] s = "2025-03-01" -> 20148
      [] s = "2025-12-10" -> 20432
      [] OTHER -> NaN

\* Number(s) for the strings typed into the minutes filters
Number(s) == CASE s = "0" -> 0 [] s = "1" -> 1 [] OTHER -> NaN

\* the string of the one code unit U+FFFF, the stand-in of an empty assignee
Sentinel == "\\uffff"

\* String.prototype.toLowerCase on the strings of the model
toLowerCase(s) ==
    CASE s = "B" -> "b"
      [] s = "OB" -> "ob"
      [] s = "Alex" -> "alex"
      [] s = "Sample task" -> "sample task"
      [] OTHER -> s

\* the place of a lower-case string in the collation order; U+FFFF has the
\* highest primary weight
CollationRank(s) ==
    CASE s = "" -> 0
      [] s = "a" -> 1
      [] s = "alex" -> 2
      [] s = "b" -> 3
      [] s = "bob" -> 4
      [] s = "sample task" -> 5
      [] s = Sentinel -> 6

\* x.localeCompare(y)
localeCompare(x, y) ==
    IF CollationRank(x) < CollationRank(y) THEN -1
    ELSE IF CollationRank(x) > CollationRank(y) THEN 1 ELSE 0

----------------------------------------------------------------------------
(* makeComparator *)

SortKeys == {"manual", "title", "due", "priority", "assignee", "elapsed"}

prRank(p) ==
    CASE p = "High" -> 3 [] p = "Medium" -> 2 [] p = "Low" -> 1 [] OTHER -> 0

\* a missing due date read as time 0
DueOrZero(t) == IF t.dueDate # "" THEN getTime(t.dueDate) ELSE 0

\* a.dueDate ? new Date(a.dueDate).getTime() : Number.POSITIVE_INFINITY
DueOrInfinity(t) == IF t.dueDate # "" THEN getTime(t.dueDate) ELSE Infinity

\* (a.assignee || U+FFFF).toLowerCase()
AssigneeOrSentinel(t) == toLowerCase(IF t.assignee # "" THEN t.assignee ELSE Sentinel)

\* line 1310: the tie-break on ids
TieBreak(mul, a, b) == (IF a.id > b.id THEN 1 ELSE -1) * mul

\* the default case left by `break` in the place of `return 0`
DefaultCaseBreaks(mul, a, b) == TieBreak(mul, a, b)

\* lines 1306-1307: the default case, taken by the key manual
DefaultCase(mul, a, b) == 0

\* makeComparator(sortKey, dir)(a, b): the number the comparator returns
makeComparator(sortKey, dir, a, b) ==
    LET mul == IF dir = "desc" THEN -1 ELSE 1
    IN  CASE sortKey = "title" ->
               LET va == toLowerCase(a.title)
                   vb == toLowerCase(b.title)
               IN  IF va # vb THEN mul * localeCompare(va, vb) ELSE TieBreak(mul, a, b)
          [] sortKey = "due" ->
               LET da == DueOrInfinity(a)
                   db == DueOrInfinity(b)
               IN  IF StrictNotEqual(da, db) THEN Times(mul, Minus(da, db))
                   ELSE TieBreak(mul, a, b)
          [] sortKey = "priority" ->
               LET ra == prRank(a.priority)
                   rb == prRank(b.priority)
               IN  IF ra # rb THEN mul * (ra - rb) ELSE TieBreak(mul, a, b)
          [] sortKey = "assignee" ->
               LET va == AssigneeOrSentinel(a)
                   vb == AssigneeOrSentinel(b)
               IN  IF va # vb THEN mul * localeCompare(va, vb) ELSE TieBreak(mul, a, b)
          [] sortKey = "elapsed" ->
               LET ea == totalElapsed(a)
                   eb == totalElapsed(b)
               IN  IF ea # eb THEN mul * (ea - eb) ELSE TieBreak(mul, a, b)
          [] OTHER -> DefaultCase(mul, a, b)

\* what Array.prototype.sort reads from the number: its sign, and 0 for NaN
Order(v) == IF v = NaN THEN 0 ELSE IF v < 0 THEN -1 ELSE IF v > 0 THEN 1 ELSE 0

----------------------------------------------------------------------------
(* matchesFilters *)

\* t.dueDate ? new Date(t.dueDate).getTime() : NaN
DueOrNaN(t) == IF t.dueDate # "" THEN getTime(t.dueDate) ELSE NaN

\* Math.round in the place of Math.floor
MinutesRounded(t) == (totalElapsed(t) + 30000) \div 60000

\* Math.floor(totalElapsed(t) / 60000)
Minutes(t) == totalElapsed(t) \div 60000

matchesFilters(t) ==
    /\ filters.dueAfter # "" => GreaterOrEqual(DueOrNaN(t), getTime(filters.dueAfter))
    /\ filters.dueBefore # "" => LessOrEqual(DueOrNaN(t), getTime(filters.dueBefore))
    /\ filters.priority # "" => t.priority = filters.priority
    /\ filters.assignee # "" => t.assignee = filters.assignee
    /\ filters.minMinutes # "" => ~LessThan(Minutes(t), Number(filters.minMinutes))
    /\ filters.maxMinutes # "" => ~GreaterThan(Minutes(t), Number(filters.maxMinutes))

----------------------------------------------------------------------------
(* matchesQuery *)

\* the code units of the lower-case strings of the model
Chars(s) ==
    CASE s = "" -> << >>
      [] s = " " -> <<" ">>
      [] s = "a" -> <<"a">>
      [] s = "b" -> <<"b">>
      [] s = "ob" -> <<"o", "b">>
      [] s = "alex" -> <<"a", "l", "e", "x">>
      [] s = "bob" -> <<"b", "o", "b">>

\* x.includes(y): y occurs in x at some offset
includes(x, y) ==
    LET cx == Chars(x)
        cy == Chars(y)
    IN  \E k \in 0..(Len(cx) - Len(cy)) : SubSeq(cx, k + 1, k + Len(cy)) = cy

\* (s || "").toLowerCase().includes(q.toLowerCase())
contains(s, q) == includes(toLowerCase(s), toLowerCase(q))

\* a search that looks at the title only
matchesQueryTitleOnly(task, q) ==
    IF Trim(q) = "" THEN TRUE ELSE contains(task.title, q)

matchesQuery(task, q) ==
    IF Trim(q) = "" THEN TRUE
    ELSE \/ contains(task.title, q)
         \/ contains(task.description, q)
         \/ contains(task.assignee, q)
         \/ \E k \in 1..Len(task.subtasks) : contains(task.subtasks[k].title, q)

----------------------------------------------------------------------------
(* The displayed list of a column: lines 1838-1847 of the render *)

\* the place of x in the sorted list: after the last element, scanning from
\* the end, that the comparator does not order after x
RECURSIVE InsertionPoint(_, _, _, _, _)
InsertionPoint(sorted, x, sortKey, dir, k) ==
    IF k >= 1 /\ Order(makeComparator(sortKey, dir, sorted[k], x)) > 0
    THEN InsertionPoint(sorted, x, sortKey, dir, k - 1)
    ELSE k

\* Array.prototype.sort with makeComparator(sortKey, dir): a stable sort, as
\* ECMAScript requires; for a comparator that is a total order every sort
\* gives this list
RECURSIVE SortList(_, _, _)
SortList(list, sortKey, dir) ==
    IF list = << >> THEN << >>
    ELSE LET sorted == SortList(SubSeq(list, 1, Len(list) - 1), sortKey, dir)
             x      == list[Len(list)]
         IN  InsertAt(sorted, InsertionPoint(sorted, x, sortKey, dir, Len(sorted)), x)

\* the array that line 1847 sorts in place, were it the bucket of the store
SortedArrayIsBucket == "bucket"

\* the array that line 1847 sorts in place: the copy [...baseList]
SortedArray == "copy"

\* The arrays of a column with sort setting `setting` after its render, by the
\* name that holds them.
\* filter returns a new array; [...baseList] is a new array; sort reorders the
\* array it is called on and returns it.
RenderArraysWith(bucket, setting) ==
    LET filtered ==
            [ bucket   |-> bucket,
              baseList |-> SelectSeq(bucket,
                               LAMBDA t : matchesQuery(t, query) /\ matchesFilters(t)) ]
        copied == [ bucket |-> filtered.bucket, baseList |-> filtered.baseList,
                    copy |-> filtered.baseList ]
    IN  IF setting.key = "manual"
        THEN filtered
        ELSE [copied EXCEPT ![SortedArray] =
                 SortList(copied[SortedArray], setting.key, setting.dir)]

\* the arrays of column col after its render
RenderArrays(bucket, col) == RenderArraysWith(bucket, colSort[col])

\* baseList: the tasks of the bucket that pass the search and the filters
baseList(col) == RenderArrays(columns[col], col).baseList

\* list: key === "manual" ? baseList : [...baseList].sort(comparator)
DisplayedList(col) ==
    IF colSort[col].key = "manual"
    THEN RenderArrays(columns[col], col).baseList
    ELSE RenderArrays(columns[col], col).copy

\* the store after a render
RenderStore(cols) == [col \in StatusSet |-> RenderArrays(cols[col], col).bucket]

\* one render of the board
render ==
    /\ columns' = RenderStore(columns)
    /\ UNCHANGED <<showForm, editingId, form, now, celebrations, viewVars, fault>>

----------------------------------------------------------------------------
(* The sort controls, the search box and the filters *)

\* a sort key written to every column
setColSortKeyOfAll(col, key) ==
    /\ colSort' = [c \in StatusSet |-> Spread(colSort[c], [key |-> key])]
    /\ celebrations' = 0
    /\ UNCHANGED <<columns, showForm, editingId, form, now, query, filters, fault>>

setColSortKey(col, key) ==
    /\ colSort' = [colSort EXCEPT ![col] = Spread(@, [key |-> key])]
    /\ celebrations' = 0
    /\ UNCHANGED <<columns, showForm, editingId, form, now, query, filters, fault>>

toggleColSortDir(col) ==
    /\ colSort' = [colSort EXCEPT
                     ![col] = Spread(@, [dir |-> IF @.dir = "asc" THEN "desc" ELSE "asc"])]
    /\ celebrations' = 0
    /\ UNCHANGED <<columns, showForm, editingId, form, now, query, filters, fault>>

\* onChange of the "Due after" input
setDueAfter(v) ==
    /\ filters' = Spread(filters, [dueAfter |-> v])
    /\ celebrations' = 0
    /\ UNCHANGED <<columns, showForm, editingId, form, now, colSort, query, fault>>

\* onChange of the "Due before" input
setDueBefore(v) ==
    /\ filters' = Spread(filters, [dueBefore |-> v])
    /\ celebrations' = 0
    /\ UNCHANGED <<columns, showForm, editingId, form, now, colSort, query, fault>>

\* onChange of the search box
setQuery(v) ==
    /\ query' = v
    /\ celebrations' = 0
    /\ UNCHANGED <<columns, showForm, editingId, form, now, colSort, filters, fault>>

\* onChange of the Priority select of the filter bar
setPriorityFilter(v) ==
    /\ filters' = Spread(filters, [priority |-> v])
    /\ celebrations' = 0
    /\ UNCHANGED <<columns, showForm, editingId, form, now, colSort, query, fault>>

\* onChange of the Assignee select of the filter bar
setAssigneeFilter(v) ==
    /\ filters' = Spread(filters, [assignee |-> v])
    /\ celebrations' = 0
    /\ UNCHANGED <<columns, showForm, editingId, form, now, colSort, query, fault>>

\* onChange of the "Min mins" input
setMinMinutes(v) ==
    /\ filters' = Spread(filters, [minMinutes |-> v])
    /\ celebrations' = 0
    /\ UNCHANGED <<columns, showForm, editingId, form, now, colSort, query, fault>>

\* onChange of the "Max mins" input
setMaxMinutes(v) ==
    /\ filters' = Spread(filters, [maxMinutes |-> v])
    /\ celebrations' = 0
    /\ UNCHANGED <<columns, showForm, editingId, form, now, colSort, query, fault>>

----------------------------------------------------------------------------
(* Specification *)

Next ==
    \/ Tick
    \/ openAddForm
    \/ \E col \in StatusSet : \E i \in 1..Len(columns[col]) : openEditForm(col, i)
    \/ cancelForm
    \/ \E v \in Titles : setFormTitle(v)
    \/ \E s \in StatusSet : setFormStatus(s)
    \/ saveTask
    \/ deleteTask
    \/ \E fromCol \in StatusSet : \E i \in 1..Len(columns[fromCol]) :
         \E toCol \in StatusSet :
           \E index \in 0..(IF fromCol = toCol THEN Len(columns[toCol]) - 1
                                               ELSE Len(columns[toCol])) :
             \E eager \in BOOLEAN : onDragEnd(fromCol, i, toCol, index, eager)
    \/ onDragEndNoDestination
    \/ \E col \in StatusSet : \E i \in 1..Len(columns[col]) :
         \E j \in ToggledSubtasks \cap (1..Len(columns[col][i].subtasks)) :
           toggleSubtask(col, i, j)

Spec == Init /\ [][Next]_vars

----------------------------------------------------------------------------
(* Specification of the board whose drops may carry any draggableId *)

\* an unmounted App handles no event
NextStale ==
    \/ ~fault /\ openAddForm
    \/ ~fault /\ \E col \in StatusSet : \E i \in 1..Len(columns[col]) : openEditForm(col, i)
    \/ ~fault /\ \E v \in Titles : setFormTitle(v)
    \/ ~fault /\ \E s \in StatusSet : setFormStatus(s)
    \/ ~fault /\ saveTask
    \/ ~fault /\ deleteTask
    \/ ~fault /\ \E fromCol \in StatusSet : \E i \in 1..Len(columns[fromCol]) :
                   \E toCol \in StatusSet :
                     \E index \in 0..(IF fromCol = toCol THEN Len(columns[toCol]) - 1
                                                         ELSE Len(columns[toCol])) :
                       \E eager \in BOOLEAN : onDragEnd(fromCol, i, toCol, index, eager)
    \/ ~fault /\ \E draggableId \in DraggableIds : \E fromCol, toCol \in StatusSet :
                   \E index \in 0..Len(columns[toCol]) :
                     onDragEndStale(draggableId, fromCol, toCol, index)

SpecStale == Init /\ [][NextStale]_vars

----------------------------------------------------------------------------
(* Specification of one column's sort: the cards of one column are drawn   *)
(* from SampleTasks, and its sort controls and the due-date filters change *)

\* a column lists at most this many cards
MaxListed == 3

\* the column that holds the cards
SortColumn == "Review"

\* a task created in SortColumn with the form's defaults and the title "a"
BaseTask ==
    [ id |-> Epoch, title |-> "a", description |-> "", priority |-> "Medium",
      assignee |-> "", dueDate |-> "", status |-> SortColumn, subtasks |-> << >> ]

\* BaseTask with one field changed; "soon" is a due date that is no date, and
\* the last one has spent 5 ms in Doing
TaskVariants ==
    << BaseTask,
       [BaseTask EXCEPT !.title = "B"],
       [BaseTask EXCEPT !.dueDate = "2025-01-01"],
       [BaseTask EXCEPT !.dueDate = "2025-03-01"],
       [BaseTask EXCEPT !.dueDate = "soon"],
       [BaseTask EXCEPT !.priority = "High"],
       [BaseTask EXCEPT !.priority = "Low"],
       [BaseTask EXCEPT !.priority = ""],
       [BaseTask EXCEPT !.assignee = "Alex"],
       [BaseTask EXCEPT !.assignee = "bob"],
       Spread(BaseTask, [isRunning |-> FALSE, startedAt |-> Null, elapsedMs |-> 5]) >>

\* every variant under the ids of two successive readings of Date.now()
SampleTasks ==
    [ u \in 1..(2 * Len(TaskVariants)) |->
        IF u <= Len(TaskVariants)
        THEN TaskVariants[u]
        ELSE [TaskVariants[u - Len(TaskVariants)] EXCEPT !.id = Epoch + 1] ]

\* the choices of at most MaxListed different sample tasks
ListedIndexes ==
    { ix \in UNION {[1..m -> 1..Len(SampleTasks)] : m \in 0..MaxListed} :
        \A i, j \in DOMAIN ix : i < j => ix[i] < ix[j] }

\* the dates typed into the due-date filters
FilterDates == {"", "2025-02-01"}

InitSort ==
    /\ columns \in { [s \in StatusSet |->
                        IF s = SortColumn
                        THEN [k \in DOMAIN ix |-> SampleTasks[ix[k]]]
                        ELSE << >>] : ix \in ListedIndexes }
    /\ showForm = FALSE
    /\ editingId = Null
    /\ form = EmptyForm
    /\ now = Epoch
    /\ celebrations = 0
    /\ colSort = defaultSortForAll
    /\ query = ""
    /\ filters = EmptyFilters
    /\ fault = FALSE

NextSort ==
    \/ \E key \in SortKeys : setColSortKey(SortColumn, key)
    \/ toggleColSortDir(SortColumn)
    \/ \E v \in FilterDates : setDueAfter(v)
    \/ \E v \in FilterDates : setDueBefore(v)

SpecSort == InitSort /\ [][NextSort]_vars

----------------------------------------------------------------------------
(* Specification of one column's projection: the cards of one column are   *)
(* drawn from SearchTasks in any storage order; the search box, every      *)
(* filter and the column's sort controls change, and the board is rendered *)

\* the column lists at most this many cards
MaxShown == 2

\* tasks that differ in the fields the search and the filters read: the second
\* spent one minute in Doing and left it, the third is in Doing since Epoch
\* after a minute less one millisecond there
SearchTasks ==
    << [ id |-> Epoch, title |-> "a", description |-> "", priority |-> "High",
         assignee |-> "", dueDate |-> "2025-03-01", status |-> SortColumn,
         subtasks |-> << >> ],
       [ id |-> Epoch + 1, title |-> "B", description |-> "bob", priority |-> "Low",
         assignee |-> "", dueDate |-> "", status |-> SortColumn, subtasks |-> << >>,
         isRunning |-> FALSE, startedAt |-> Null, elapsedMs |-> 60000 ],
       [ id |-> Epoch + 2, title |-> "B", description |-> "", priority |-> "Medium",
         assignee |-> "Alex", dueDate |-> "2025-01-01", status |-> "Doing",
         subtasks |-> << >>,
         isRunning |-> TRUE, startedAt |-> Epoch, elapsedMs |-> 59999 ],
       [ id |-> Epoch + 3, title |-> "B", description |-> "", priority |-> "Medium",
         assignee |-> "", dueDate |-> "soon", status |-> SortColumn,
         subtasks |-> << [id |-> Epoch + 4, title |-> "bob", done |-> FALSE] >> ],
       [ id |-> Epoch + 5, title |-> "B", description |-> "", priority |-> "Medium",
         assignee |-> "", dueDate |-> "", status |-> SortColumn, subtasks |-> << >> ] >>

\* the lists of at most MaxShown different tasks of SearchTasks
ShownIndexes ==
    { ix \in UNION {[1..m -> 1..Len(SearchTasks)] : m \in 0..MaxShown} :
        \A i, j \in DOMAIN ix : i # j => ix[i] # ix[j] }

\* the texts typed into the search box
Queries == {"", " ", "a", "OB"}

\* the choices of the filter bar
PriorityChoices == {"", "High", "Low"}

AssigneeChoices == {"", "Alex"}

MinMinutesTyped == {"", "1"}

MaxMinutesTyped == {"", "0"}

\* the dates typed into the due-date filters of this column
DueBounds == {"", "2025-02-01", "2025-03-01"}

InitSearch ==
    /\ columns \in { [s \in StatusSet |->
                        SelectSeq([k \in DOMAIN ix |-> SearchTasks[ix[k]]],
                                  LAMBDA t : t.status = s)] : ix \in ShownIndexes }
    /\ showForm = FALSE
    /\ editingId = Null
    /\ form = EmptyForm
    /\ now = Epoch
    /\ celebrations = 0
    /\ colSort = defaultSortForAll
    /\ query = ""
    /\ filters = EmptyFilters
    /\ fault = FALSE

NextSearch ==
    \/ Tick
    \/ \E v \in Queries : setQuery(v)
    \/ \E v \in PriorityChoices : setPriorityFilter(v)
    \/ \E v \in AssigneeChoices : setAssigneeFilter(v)
    \/ \E v \in MinMinutesTyped : setMinMinutes(v)
    \/ \E v \in MaxMinutesTyped : setMaxMinutes(v)
    \/ \E v \in DueBounds : setDueAfter(v)
    \/ \E v \in DueBounds : setDueBefore(v)
    \/ \E key \in SortKeys : setColSortKey(SortColumn, key)
    \/ toggleColSortDir(SortColumn)
    \/ render

SpecSearch == InitSearch /\ [][NextSearch]_vars

----------------------------------------------------------------------------
(* Specification of the sort controls of the four columns: the board holds *)
(* MaxCards created tasks in any columns and storage orders, and the sort  *)
(* key and direction of every column change                                *)

\* the board holds this many cards
MaxCards == 2

\* the titles of the cards, so that the order by title is not the order by id
CardTitles == <<"B", "a", "B", "a">>

\* card k as saveTask creates it in column s at clock reading Epoch
Card(k, s) ==
    LET created == [ id |-> Epoch + k, title |-> CardTitles[k], description |-> "",
                     priority |-> "Medium", assignee |-> "", dueDate |-> "",
                     status |-> s, subtasks |-> << >> ]
    IN  IF s = "Doing"
        THEN Spread(created, [isRunning |-> TRUE, startedAt |-> Epoch, elapsedMs |-> 0])
        ELSE created

\* the storage orders of the cards and the columns that hold them
CardOrders ==
    { o \in [1..MaxCards -> 1..MaxCards] : \A i, j \in 1..MaxCards : i # j => o[i] # o[j] }

InitColumns ==
    /\ columns \in { [s \in StatusSet |->
                        SelectSeq([i \in 1..MaxCards |-> Card(o[i], place[o[i]])],
                                  LAMBDA t : t.status = s)] :
                     o \in CardOrders, place \in [1..MaxCards -> StatusSet] }
    /\ showForm = FALSE
    /\ editingId = Null
    /\ form = EmptyForm
    /\ now = Epoch
    /\ celebrations = 0
    /\ colSort = defaultSortForAll
    /\ query = ""
    /\ filters = EmptyFilters
    /\ fault = FALSE

\* the sort keys chosen in this specification
ControlKeys == {"manual", "title", "priority"}

NextColumns ==
    \/ \E col \in StatusSet : \E key \in ControlKeys : setColSortKey(col, key)
    \/ \E col \in StatusSet : toggleColSortDir(col)

SpecColumns == InitColumns /\ [][NextColumns]_vars

----------------------------------------------------------------------------
(* Specification of drops on a searched board: DroppedCards cards are      *)
(* created in To Do, the search text changes, and every drop picks up a    *)
(* displayed card and lands at an index of a displayed list                *)

\* the board holds this many cards
DroppedCards == 3

\* the texts typed into the search box of this board
DropQueries == {"", "B"}

\* The drop of displayed card k of column fromCol at index `index` of the
\* displayed cards of column toCol: the Draggables are the cards of `list`,
\* each with its index in `list` (lines 1888-1889).
onDragEndDisplayed(fromCol, k, toCol, index, eager) ==
    /\ k \in 1..Len(DisplayedList(fromCol))
    /\ \E i \in 1..Len(columns[fromCol]) :
         /\ columns[fromCol][i] = DisplayedList(fromCol)[k]
         /\ onDragEnd(fromCol, i, toCol, index, eager)

\* the indexes at which a card of column fromCol can land among the displayed
\* cards of column toCol
DropIndexes(fromCol, toCol) ==
    0..(IF fromCol = toCol THEN Len(DisplayedList(toCol)) - 1
                           ELSE Len(DisplayedList(toCol)))

InitDrop ==
    /\ columns = [s \in StatusSet |->
                    IF s = "To Do" THEN [k \in 1..DroppedCards |-> Card(k, "To Do")]
                    ELSE << >>]
    /\ showForm = FALSE
    /\ editingId = Null
    /\ form = EmptyForm
    /\ now = Epoch
    /\ celebrations = 0
    /\ colSort = defaultSortForAll
    /\ query = ""
    /\ filters = EmptyFilters
    /\ fault = FALSE

NextDrop ==
    \/ \E v \in DropQueries : setQuery(v)
    \/ \E fromCol \in StatusSet : \E k \in 1..Len(DisplayedList(fromCol)) :
         \E toCol \in StatusSet : \E index \in DropIndexes(fromCol, toCol) :
             \E eager \in BOOLEAN : onDragEndDisplayed(fromCol, k, toCol, index, eager)

SpecDrop == InitDrop /\ [][NextDrop]_vars

----------------------------------------------------------------------------
(* Vocabulary of the properties *)

\* the places of the store: <<bucket, position>>
Positions(cols) ==
    {p \in StatusSet \X (1..(MaxTasks + 1)) : p[2] <= Len(cols[p[1]])}

TaskAt(cols, p) == cols[p[1]][p[2]]

\* exactly one task of the store has this id
UniqueIn(cols, id) ==
    Cardinality({p \in Positions(cols) : TaskAt(cols, p).id = id}) = 1

\* the place of the task with this id
PlaceOf(cols, id) == CHOOSE p \in Positions(cols) : TaskAt(cols, p).id = id

\* the live total as the specification words it, read at clock reading `at`
LiveTotal(t, at) ==
    ElapsedOrZero(t) + (IF IsRunning(t) THEN at - t.startedAt ELSE 0)

\* u is t with the running interval folded into elapsedMs and the timer cleared
Folded(t, u) ==
    /\ ~IsRunning(u)
    /\ "startedAt" \in DOMAIN u /\ u.startedAt = Null
    /\ ElapsedOrZero(u) = ElapsedOrZero(t) + (now - t.startedAt)

\* u is t with the timer started now and the accumulated time kept
Started(t, u) ==
    /\ IsRunning(u)
    /\ "startedAt" \in DOMAIN u /\ u.startedAt = now
    /\ ElapsedOrZero(u) = ElapsedOrZero(t)

\* this step is a saveTask that passes the title check and edits a task
EditSaveStep == saveTask /\ Trim(form.title) # "" /\ editingId # Null

\* this step is a saveTask that passes the title check and creates a task
CreateStep == saveTask /\ Trim(form.title) # "" /\ editingId = Null

\* the task an edit-save or a create has just pushed
Pushed == columns'[form.status][Len(columns'[form.status])]

----------------------------------------------------------------------------
(* C1 *)

\* C1: every task of the store sits in the bucket its status field names, and
\* the store has exactly the four buckets; a task is therefore held by exactly
\* one bucket, the one of its status.
ColumnPartition ==
    /\ DOMAIN columns = StatusSet
    /\ \A p \in Positions(columns) : TaskAt(columns, p).status = p[1]

\* C1 witness: tasks have been moved and saved into three different buckets
ColumnPartitionWitness ==
    /\ Len(columns["Doing"]) = 1
    /\ Len(columns["Done"]) = 1
    /\ columns["Done"][1].id # 1
    /\ columns["Doing"][1].id = 1

----------------------------------------------------------------------------
(* C2 *)

\* C2: no task outside Doing has isRunning = true.
TimerRunsOnlyInDoing ==
    \A p \in Positions(columns) :
        p[1] # "Doing" => ~IsRunning(TaskAt(columns, p))

----------------------------------------------------------------------------
(* C3 *)

\* C3: for every task, isRunning true implies a non-null startedAt, and
\* isRunning false or absent implies a null or absent startedAt.
TimerInvariant ==
    \A p \in Positions(columns) :
        LET t == TaskAt(columns, p)
        IN  /\ IsRunning(t) => ("startedAt" \in DOMAIN t /\ t.startedAt # Null)
            /\ ~IsRunning(t) => ("startedAt" \notin DOMAIN t \/ t.startedAt = Null)

\* C3 witness: one task runs, another was stopped after running for a while
TimerInvariantWitness ==
    \E p, q \in Positions(columns) :
        /\ IsRunning(TaskAt(columns, p))
        /\ "isRunning" \in DOMAIN TaskAt(columns, q)
        /\ ~IsRunning(TaskAt(columns, q))
        /\ ElapsedOrZero(TaskAt(columns, q)) > 0

----------------------------------------------------------------------------
(* C4 *)

\* C4: a cross-column drop, or an edit-save that changes the status, that
\* moves a running task out of Doing folds now - startedAt into elapsedMs,
\* sets isRunning to false and startedAt to null.
LeavingDoingFolds ==
    [][ /\ \A i \in 1..Len(columns["Doing"]) : \A toCol \in StatusSet \ {"Doing"} :
             \A index \in 0..Len(columns[toCol]) : \A eager \in BOOLEAN :
                LET id == columns["Doing"][i].id
                    t  == columns["Doing"][FindIndex(columns["Doing"], id)]
                IN  (onDragEnd("Doing", i, toCol, index, eager) /\ IsRunning(t))
                        => Folded(t, columns'[toCol][index + 1])
        /\ ( /\ EditSaveStep
             /\ UniqueIn(columns, editingId)
             /\ PlaceOf(columns, editingId)[1] = "Doing"
             /\ form.status # "Doing"
             /\ IsRunning(TaskAt(columns, PlaceOf(columns, editingId))) )
              => Folded(TaskAt(columns, PlaceOf(columns, editingId)), Pushed)
      ]_vars

----------------------------------------------------------------------------
(* C5 *)

\* C5: a cross-column drop into Doing, an edit-save that changes the status
\* to Doing, and a create with status Doing set isRunning to true and
\* startedAt to the clock reading, and keep the task's prior elapsedMs.
EnteringDoingStarts ==
    [][ /\ \A fromCol \in StatusSet \ {"Doing"} : \A i \in 1..Len(columns[fromCol]) :
             \A index \in 0..Len(columns["Doing"]) : \A eager \in BOOLEAN :
                LET id == columns[fromCol][i].id
                    t  == columns[fromCol][FindIndex(columns[fromCol], id)]
                IN  onDragEnd(fromCol, i, "Doing", index, eager)
                        => Started(t, columns'["Doing"][index + 1])
        /\ ( /\ EditSaveStep
             /\ UniqueIn(columns, editingId)
             /\ PlaceOf(columns, editingId)[1] # "Doing"
             /\ form.status = "Doing" )
              => Started(TaskAt(columns, PlaceOf(columns, editingId)), Pushed)
        /\ (CreateStep /\ form.status = "Doing")
              => (Started(form, Pushed) /\ ElapsedOrZero(Pushed) = 0)
      ]_vars

----------------------------------------------------------------------------
(* C6 *)

\* C6: elapsedMs of every task is non-negative and never decreases in a step.
ElapsedNeverDecreases ==
    [][ \A q \in Positions(columns') :
            LET u == TaskAt(columns', q)
            IN  /\ ElapsedOrZero(u) >= 0
                /\ (UniqueIn(columns, u.id) /\ UniqueIn(columns', u.id))
                     => ElapsedOrZero(u)
                          >= ElapsedOrZero(TaskAt(columns, PlaceOf(columns, u.id)))
      ]_vars

----------------------------------------------------------------------------
(* C7 *)

\* C7: the live total of a task is elapsedMs + (now - startedAt if isRunning,
\* else 0); over a step it does not decrease for a task that is running
\* before and after, and it is the same before and after a step that stops
\* or starts the task's timer at one clock reading.
LiveTotalIsContinuous ==
    [][ /\ \A p \in Positions(columns) :
             totalElapsed(TaskAt(columns, p)) = LiveTotal(TaskAt(columns, p), now)
        /\ \A q \in Positions(columns') :
             LET u == TaskAt(columns', q)
                 t == TaskAt(columns, PlaceOf(columns, u.id))
             IN  (UniqueIn(columns, u.id) /\ UniqueIn(columns', u.id)) =>
                   /\ (IsRunning(t) /\ IsRunning(u))
                        => LiveTotal(u, now') >= LiveTotal(t, now)
                   /\ (IsRunning(t) # IsRunning(u) /\ now' = now)
                        => LiveTotal(u, now') = LiveTotal(t, now)
      ]_vars

----------------------------------------------------------------------------
(* C8 *)

\* the ids of the store, with their multiplicities
IdsOf(cols) ==
    [id \in {TaskAt(cols, p).id : p \in Positions(cols)} |->
        Cardinality({p \in Positions(cols) : TaskAt(cols, p).id = id})]

\* C8: no two tasks of the store have the same id, and an edit-save, a drop
\* and a subtask toggle leave the ids of the store as they are.
IdsUniqueAndStable ==
    [][ /\ \A p, q \in Positions(columns') :
             p # q => TaskAt(columns', p).id # TaskAt(columns', q).id
        /\ (Len(columns'["To Do"]) + Len(columns'["Doing"])
              + Len(columns'["Review"]) + Len(columns'["Done"]) = TaskCount)
             => IdsOf(columns') = IdsOf(columns)
      ]_vars

----------------------------------------------------------------------------
(* C9 *)

\* C9: a drop signals exactly one celebration when it moves a task into Done
\* from another column, and none otherwise.
DropCelebratesOnce ==
    [][ \A fromCol \in StatusSet : \A i \in 1..Len(columns[fromCol]) :
          \A toCol \in StatusSet : \A index \in 0..Len(columns[toCol]) :
            \A eager \in BOOLEAN :
               onDragEnd(fromCol, i, toCol, index, eager)
                 => celebrations' = (IF toCol = "Done" /\ fromCol # "Done" THEN 1 ELSE 0)
      ]_vars

----------------------------------------------------------------------------
(* C10 *)

\* C10: a save signals a celebration exactly when the saved status is Done
\* and the saved task was not in Done before (a new task was not).
SaveCelebratesOnEnteringDone ==
    [][ (saveTask /\ Trim(form.title) # "")
          => ( (celebrations' >= 1)
                 <=> ( /\ form.status = "Done"
                       /\ ~( /\ editingId # Null
                             /\ FindIndex(columns["Done"], editingId) # 0 ) ) )
      ]_vars

----------------------------------------------------------------------------
(* C11 *)

\* C11: a drop whose dragged id is not in the source bucket leaves every
\* bucket unchanged and raises no error.  (No reachable state has an
\* editingId that matches no task, so an edit-save and a delete are always
\* addressed to a stored task.)
StaleDropIsNoOp ==
    [][ \A draggableId \in DraggableIds : \A fromCol, toCol \in StatusSet :
          \A index \in 0..Len(columns[toCol]) :
            onDragEndStale(draggableId, fromCol, toCol, index)
              => (columns' = columns /\ ~fault')
      ]_vars

\* the form is only ever open on a task of the store
FormTargetsStoredTask ==
    (~fault /\ showForm /\ editingId # Null) => HasId(columns, editingId)

----------------------------------------------------------------------------
(* C12 *)

\* the titles that are empty or only whitespace
BlankTitles == {"", " "}

TitlesNonBlank ==
    \A p \in Positions(columns) : TaskAt(columns, p).title \notin BlankTitles

\* C12: a save of a form whose title is empty or only whitespace changes
\* nothing: the store, the form, editingId and the open form stay as they are
\* and no celebration is signalled; and every task of the store has a
\* non-blank title in every reachable state.
BlankTitleIsRejected ==
    /\ []TitlesNonBlank
    /\ [][ (saveTask /\ form.title \in BlankTitles)
             => ( /\ UNCHANGED <<columns, showForm, editingId, form>>
                  /\ showForm'
                  /\ celebrations' = 0 )
         ]_vars

\* C12 witness: the edit form of a stored task is open with its title blanked,
\* next to a task that a save has created
BlankTitleIsRejectedWitness ==
    /\ showForm
    /\ editingId # Null
    /\ form.title = " "
    /\ TaskCount = 2

----------------------------------------------------------------------------
(* C13 *)

\* C13: a drop of card i of a column at position index of the same column
\* puts that task at index `index` of the bucket with its status, isRunning,
\* startedAt and elapsedMs (and every other field) unchanged, and leaves the
\* other three buckets unchanged.  The handler does not read colSort.
SameColumnDropReorders ==
    [][ \A col \in StatusSet : \A i \in 1..Len(columns[col]) :
          \A index \in 0..(Len(columns[col]) - 1) : \A eager \in BOOLEAN :
            onDragEnd(col, i, col, index, eager)
              => /\ Len(columns'[col]) = Len(columns[col])
                 /\ columns'[col][index + 1] = columns[col][i]
                 /\ \A s \in StatusSet \ {col} : columns'[s] = columns[s]
      ]_vars

----------------------------------------------------------------------------
(* C14 *)

\* C14: a drop of card i of column fromCol at position index of another
\* column toCol takes that task out of the source bucket and puts it, with
\* status toCol, at index `index` of the destination bucket; a drop with no
\* destination changes nothing.
CrossColumnDropMoves ==
    [][ /\ \A fromCol \in StatusSet : \A i \in 1..Len(columns[fromCol]) :
             \A toCol \in StatusSet \ {fromCol} :
               \A index \in 0..Len(columns[toCol]) : \A eager \in BOOLEAN :
                 onDragEnd(fromCol, i, toCol, index, eager)
                   => /\ columns'[fromCol] = RemoveAt(columns[fromCol], i)
                      /\ Len(columns'[toCol]) = Len(columns[toCol]) + 1
                      /\ columns'[toCol][index + 1].id = columns[fromCol][i].id
                      /\ columns'[toCol][index + 1].status = toCol
                      /\ \A s \in StatusSet \ {fromCol, toCol} : columns'[s] = columns[s]
        /\ onDragEndNoDestination
             => UNCHANGED <<columns, showForm, editingId, form, viewVars>>
      ]_vars

----------------------------------------------------------------------------
(* C15 *)

\* C15: a delete happens only while a task is being edited; it takes exactly
\* one task, one with the edited id, out of its bucket, leaves every other
\* task and the order of the remaining ones unchanged, and closes the form.
DeleteRemovesOnlyEdited ==
    [][ deleteTask
          => /\ editingId # Null
             /\ \E p \in Positions(columns) :
                   /\ TaskAt(columns, p).id = editingId
                   /\ columns' = [columns EXCEPT ![p[1]] = RemoveAt(@, p[2])]
             /\ ~showForm'
      ]_vars

----------------------------------------------------------------------------
(* Vocabulary of the comparator properties *)

\* the positions of the cards of a column
Listed(col) == 1..Len(columns[col])

\* how the sort of column col orders a and b under the column's sort setting:
\* -1 is a before b, 1 is a after b, 0 is no order between them
Compare(col, a, b) ==
    Order(makeComparator(colSort[col].key, colSort[col].dir, a, b))

\* 1 for asc, -1 for desc
Direction(col) == IF colSort[col].dir = "desc" THEN -1 ELSE 1

\* the task has a due date that is a date
HasDue(t) == t.dueDate # "" /\ getTime(t.dueDate) # NaN

\* the task has a due date that cannot be parsed
UnparsableDue(t) == t.dueDate # "" /\ getTime(t.dueDate) = NaN

----------------------------------------------------------------------------
(* C16 *)

\* C16: under every non-manual sort key and both directions the comparator
\* never reports two different cards of a column equal, compare(a, b) and
\* compare(b, a) have opposite signs, the order is transitive, and two tasks
\* that differ in their id only are ordered by ascending id times direction.
ComparatorIsStrictTotalOrder ==
    \A col \in StatusSet :
        colSort[col].key # "manual" =>
            /\ \A i, j \in Listed(col) :
                 i # j =>
                    LET a == columns[col][i]
                        b == columns[col][j]
                    IN  /\ Compare(col, a, b) # 0
                        /\ Compare(col, a, b) = -Compare(col, b, a)
                        /\ (a.id < b.id /\ [b EXCEPT !.id = a.id] = a)
                             => Compare(col, a, b) = -Direction(col)
            /\ \A i, j, k \in Listed(col) :
                 LET a == columns[col][i]
                     b == columns[col][j]
                     c == columns[col][k]
                 IN  (Compare(col, a, b) < 0 /\ Compare(col, b, c) < 0)
                        => Compare(col, a, c) < 0

----------------------------------------------------------------------------
(* C17 *)

\* C17: under the priority key a task of higher rank (High 3, Medium 2,
\* Low 1, missing 0) is ordered before a task of lower rank in direction asc,
\* and after it in direction desc.
PriorityAscHighFirst ==
    \A col \in StatusSet :
        colSort[col].key = "priority" =>
            \A i, j \in Listed(col) :
                LET a == columns[col][i]
                    b == columns[col][j]
                IN  prRank(a.priority) > prRank(b.priority)
                        => Compare(col, a, b) = -Direction(col)

----------------------------------------------------------------------------
(* C18 *)

\* C18: under the assignee key a task with an empty assignee is ordered after
\* every task with a non-empty assignee, in both directions.
EmptyAssigneeLast ==
    \A col \in StatusSet :
        colSort[col].key = "assignee" =>
            \A i, j \in Listed(col) :
                LET a == columns[col][i]
                    b == columns[col][j]
                IN  (a.assignee = "" /\ b.assignee # "") => Compare(col, a, b) = 1

----------------------------------------------------------------------------
(* C19 *)

\* C19: under the due key in direction asc, of two tasks with due dates the
\* one with the earlier date is ordered first, a task with a due date is
\* ordered before a task without one whatever their ids, and two tasks with
\* equal due dates, or both without one, are ordered by id.
DueAscOrder ==
    \A col \in StatusSet :
        (colSort[col].key = "due" /\ colSort[col].dir = "asc") =>
            \A i, j \in Listed(col) :
                LET a == columns[col][i]
                    b == columns[col][j]
                IN  /\ (HasDue(a) /\ HasDue(b) /\ getTime(a.dueDate) < getTime(b.dueDate))
                         => Compare(col, a, b) = -1
                    /\ (HasDue(a) /\ b.dueDate = "") => Compare(col, a, b) = -1
                    /\ ( /\ \/ HasDue(a) /\ HasDue(b) /\ getTime(a.dueDate) = getTime(b.dueDate)
                            \/ a.dueDate = "" /\ b.dueDate = ""
                         /\ a.id < b.id )
                         => Compare(col, a, b) = -1

\* C19 witness: the column is sorted by due date ascending and lists a task
\* without a due date and the smaller id, and two tasks with different due
\* dates and the larger id
DueAscOrderWitness ==
    /\ colSort[SortColumn].key = "due"
    /\ colSort[SortColumn].dir = "asc"
    /\ \E i, j, k \in Listed(SortColumn) :
         /\ columns[SortColumn][i].dueDate = "" /\ columns[SortColumn][i].id = Epoch
         /\ columns[SortColumn][j].dueDate = "2025-03-01"
         /\ columns[SortColumn][j].id = Epoch + 1
         /\ columns[SortColumn][k].dueDate = "2025-01-01"
         /\ columns[SortColumn][k].id = Epoch + 1

----------------------------------------------------------------------------
(* C20 *)

\* C20: a task whose due date cannot be parsed fails the dueAfter and the
\* dueBefore filter whenever one is set, and under the due key in direction
\* asc it is ordered after every task with a due date and by id among the
\* tasks without a (parsable) due date.
UnparsableDueIsAbsent ==
    \A col \in StatusSet : \A i \in Listed(col) :
        LET a == columns[col][i]
        IN  UnparsableDue(a) =>
              /\ (filters.dueAfter # "" \/ filters.dueBefore # "") => ~matchesFilters(a)
              /\ (colSort[col].key = "due" /\ colSort[col].dir = "asc") =>
                    \A j \in Listed(col) \ {i} :
                        LET b == columns[col][j]
                        IN  /\ HasDue(b) => Compare(col, a, b) = 1
                            /\ (~HasDue(b) /\ a.id < b.id) => Compare(col, a, b) = -1
                            /\ (~HasDue(b) /\ a.id > b.id) => Compare(col, a, b) = 1

----------------------------------------------------------------------------
(* C21 *)

\* the texts the search reads from a task
SearchedTexts(t) ==
    {t.title, t.description, t.assignee}
        \cup {t.subtasks[k].title : k \in 1..Len(t.subtasks)}

\* the text q occurs in the text s when case is ignored
OccursIn(q, s) ==
    \E k \in 0..Len(Chars(toLowerCase(s))) : \E n \in 0..Len(Chars(toLowerCase(s))) :
        /\ k + n <= Len(Chars(toLowerCase(s)))
        /\ n = Len(Chars(toLowerCase(q)))
        /\ \A m \in 1..n : Chars(toLowerCase(s))[k + m] = Chars(toLowerCase(q))[m]

\* the search text is empty or only whitespace
BlankQuery == query \in {"", " "}

\* C21: the search matches every task when the search text is empty or only
\* whitespace, and otherwise exactly the tasks in whose title, description,
\* assignee or a subtask title the text occurs, case ignored.
SearchMatchesSubstring ==
    \A p \in Positions(columns) :
        LET t == TaskAt(columns, p)
        IN  matchesQuery(t, query)
              <=> (BlankQuery \/ \E s \in SearchedTexts(t) : OccursIn(query, s))

\* C21 witness: under a search text in upper case the column lists a task
\* that matches by a subtask title only and a task that does not match
SearchMatchesSubstringWitness ==
    /\ query = "OB"
    /\ \E p, q \in Positions(columns) :
         /\ TaskAt(columns, p).subtasks # << >>
         /\ matchesQuery(TaskAt(columns, p), query)
         /\ ~matchesQuery(TaskAt(columns, q), query)

----------------------------------------------------------------------------
(* C22 *)

\* the filters other than the two due-date bounds are unset
OnlyDueFilters ==
    /\ filters.priority = ""
    /\ filters.assignee = ""
    /\ filters.minMinutes = ""
    /\ filters.maxMinutes = ""

\* what the claim asks of task t under the due-date bounds
WithinDueBounds(t) ==
    /\ filters.dueAfter # ""
         => HasDue(t) /\ getTime(t.dueDate) >= getTime(filters.dueAfter)
    /\ filters.dueBefore # ""
         => HasDue(t) /\ getTime(t.dueDate) <= getTime(filters.dueBefore)

\* C22: with dueAfter set a task passes the filters only if it has a due date
\* on or after that date, with dueBefore set only if it has a due date on or
\* before it; a task without a due date fails either bound, and with no other
\* filter set a task within the bounds, a bound's own date included, passes.
DueBoundsAreInclusive ==
    \A col \in StatusSet : \A i \in Listed(col) :
        LET t == columns[col][i]
        IN  /\ matchesFilters(t) => WithinDueBounds(t)
            /\ (OnlyDueFilters /\ WithinDueBounds(t)) => matchesFilters(t)

\* C22 witness: both bounds are set to the due date of a listed task, which
\* passes, while a listed task without a due date fails
DueBoundsAreInclusiveWitness ==
    /\ OnlyDueFilters
    /\ filters.dueAfter # ""
    /\ filters.dueBefore = filters.dueAfter
    /\ \E i, j \in Listed(SortColumn) :
         /\ columns[SortColumn][i].dueDate = filters.dueAfter
         /\ matchesFilters(columns[SortColumn][i])
         /\ columns[SortColumn][j].dueDate = ""
         /\ ~matchesFilters(columns[SortColumn][j])

----------------------------------------------------------------------------
(* C23 *)

\* the whole minutes of the live elapsed time of t
WholeMinutes(t) ==
    CHOOSE m \in 0..2 :
        m * 60000 <= LiveTotal(t, now) /\ LiveTotal(t, now) < (m + 1) * 60000

\* the search and every filter that is set admit task t
Admitted(t) ==
    /\ BlankQuery \/ \E s \in SearchedTexts(t) : OccursIn(query, s)
    /\ WithinDueBounds(t)
    /\ filters.priority # "" => t.priority = filters.priority
    /\ filters.assignee # "" => t.assignee = filters.assignee
    /\ filters.minMinutes = "1" => WholeMinutes(t) >= 1
    /\ filters.maxMinutes = "0" => WholeMinutes(t) <= 0

\* C23: the displayed list of a column holds exactly the tasks of the column's
\* bucket that the search and every set filter admit, each of them once; the
\* minutes bounds read the whole minutes of the live elapsed time, and a filter
\* that is not set excludes nothing.
DisplayedIsFilteredBucket ==
    \A col \in StatusSet :
        /\ {DisplayedList(col)[k] : k \in 1..Len(DisplayedList(col))}
             = {columns[col][i] : i \in {j \in Listed(col) : Admitted(columns[col][j])}}
        /\ Len(DisplayedList(col))
             = Cardinality({j \in Listed(col) : Admitted(columns[col][j])})

\* C23 witness: under minMinutes 1 the running task completes its minute at
\* this clock reading and is displayed, and a task of another bucket that
\* spent no time in Doing is hidden
DisplayedIsFilteredBucketWitness ==
    /\ filters.minMinutes = "1"
    /\ now = Epoch + 1
    /\ Len(DisplayedList("Doing")) = 1
    /\ DisplayedList("Doing")[1].elapsedMs = 59999
    /\ Len(columns[SortColumn]) = 1
    /\ DisplayedList(SortColumn) = << >>

----------------------------------------------------------------------------
(* C24 *)

\* C24: computing the displayed lists never changes the store: after the
\* render, under any search text, filters and sort settings, every bucket holds
\* the same tasks in the same storage order as before.
RenderLeavesStore ==
    \A col \in StatusSet : RenderStore(columns)[col] = columns[col]

\* C24 witness: a column of two tasks is displayed in the reverse of its
\* storage order
RenderLeavesStoreWitness ==
    /\ Len(columns[SortColumn]) = 2
    /\ Len(DisplayedList(SortColumn)) = 2
    /\ DisplayedList(SortColumn)[1] = columns[SortColumn][2]
    /\ DisplayedList(SortColumn)[2] = columns[SortColumn][1]

----------------------------------------------------------------------------
(* C25 *)

\* C25: when the sort key of a column is manual, in either direction, the
\* displayed list is the bucket without the tasks the search and the filters
\* reject, in storage order, and the manual comparator reports every pair of
\* tasks of the column equal.
ManualKeepsStorageOrder ==
    \A col \in StatusSet :
        colSort[col].key = "manual" =>
            /\ DisplayedList(col) = SelectSeq(columns[col], Admitted)
            /\ \A i, j \in Listed(col) : \A dir \in {"asc", "desc"} :
                 makeComparator("manual", dir, columns[col][i], columns[col][j]) = 0

\* C25 witness: a manual column in direction desc stores the task of the
\* lower id first and displays its two tasks in that order
ManualKeepsStorageOrderWitness ==
    /\ colSort[SortColumn] = [key |-> "manual", dir |-> "desc"]
    /\ Len(columns[SortColumn]) = 2
    /\ columns[SortColumn][1].id < columns[SortColumn][2].id
    /\ DisplayedList(SortColumn) = columns[SortColumn]

----------------------------------------------------------------------------
(* C26 *)

\* the sort key or the sort direction of column col is changed in this step
SortControlUsed(col) ==
    \/ \E key \in ControlKeys : setColSortKey(col, key)
    \/ toggleColSortDir(col)

\* the list displayed for a bucket under a sort setting; the search text, the
\* filters and the clock are read where the formula is evaluated
DisplayedWith(bucket, setting) ==
    IF setting.key = "manual"
    THEN RenderArraysWith(bucket, setting).baseList
    ELSE RenderArraysWith(bucket, setting).copy

\* C26: changing the sort key or toggling the sort direction of one column
\* leaves the sort settings and the displayed order of the other three columns
\* as they are, and leaves the store as it is.  The search text, the filters
\* and the clock, which the displayed order also reads, stay as they are too.
SortSettingsAreIndependent ==
    [][ \A col \in StatusSet :
          SortControlUsed(col) =>
            /\ columns' = columns
            /\ <<query, filters, now>>' = <<query, filters, now>>
            /\ \A other \in StatusSet \ {col} :
                 /\ colSort'[other] = colSort[other]
                 /\ DisplayedWith(columns'[other], colSort'[other])
                      = DisplayedWith(columns[other], colSort[other]) ]_vars

\* C26 witness: one column is sorted by title in direction desc and displays
\* its two cards against the storage order while another column has been
\* given another key
SortSettingsAreIndependentWitness ==
    \E col, other \in StatusSet :
        /\ col # other
        /\ colSort[col] = [key |-> "title", dir |-> "desc"]
        /\ colSort[other].key = "priority"
        /\ Len(columns[col]) = 2
        /\ DisplayedList(col)[1] = columns[col][2]

----------------------------------------------------------------------------
(* C27 *)

\* the card with this id is displayed at index `index` of the list displayed
\* for the bucket under the sort setting
DisplayedAt(bucket, setting, id, index) ==
    /\ index + 1 <= Len(DisplayedWith(bucket, setting))
    /\ DisplayedWith(bucket, setting)[index + 1].id = id

\* the card with this id is displayed in the list
DisplayedIn(bucket, setting, id) ==
    \E k \in 1..Len(DisplayedWith(bucket, setting)) :
        DisplayedWith(bucket, setting)[k].id = id

\* C27: after the drop of a displayed card at index destIndex of the displayed
\* cards of a column whose sort key is manual, the card, when the search and
\* the filters display it, is displayed at index destIndex of that column.
DropLandsAtDisplayedIndex ==
    [][ \A fromCol, toCol \in StatusSet :
          \A k \in 1..Len(DisplayedList(fromCol)) : \A index \in DropIndexes(fromCol, toCol) :
            \A eager \in BOOLEAN :
              ( /\ onDragEndDisplayed(fromCol, k, toCol, index, eager)
                /\ colSort[toCol].key = "manual"
                /\ DisplayedIn(columns'[toCol], colSort'[toCol],
                               DisplayedList(fromCol)[k].id) )
              => DisplayedAt(columns'[toCol], colSort'[toCol],
                             DisplayedList(fromCol)[k].id, index) ]_vars

----------------------------------------------------------------------------
(* C28 *)

\* the buckets without the dragged card: card i of fromCol before the drop,
\* the card at index `index` of toCol after it
OthersBefore(fromCol, i) == [columns EXCEPT ![fromCol] = RemoveAt(@, i)]

OthersAfter(toCol, index) == [columns' EXCEPT ![toCol] = RemoveAt(@, index + 1)]

\* C28: a drop of card i of column fromCol at a valid destination keeps the
\* ids of the store, none lost and none duplicated, and keeps every other task
\* where it is relative to the others in every bucket; only the dragged task
\* changes position or bucket.
DropMovesOnlyDragged ==
    [][ \A fromCol, toCol \in StatusSet : \A i \in 1..Len(columns[fromCol]) :
          \A index \in 0..(IF fromCol = toCol THEN Len(columns[toCol]) - 1
                                              ELSE Len(columns[toCol])) :
            \A eager \in BOOLEAN :
              onDragEnd(fromCol, i, toCol, index, eager)
                => /\ IdsOf(columns') = IdsOf(columns)
                   /\ OthersAfter(toCol, index) = OthersBefore(fromCol, i)
      ]_vars

----------------------------------------------------------------------------
(* C29 *)

\* the timer fields a task carries
TimerFields(t) ==
    [k \in DOMAIN t \cap {"isRunning", "startedAt", "elapsedMs"} |-> t[k]]

\* C29: an edit-save puts the saved task at the end of the bucket of its saved
\* status, also when the status is unchanged, and keeps the order of all other
\* tasks in every bucket; when the saved status is the status the task had,
\* its isRunning, startedAt and elapsedMs are unchanged.
EditSaveAppends ==
    [][ (EditSaveStep /\ UniqueIn(columns, editingId)) =>
          LET p == PlaceOf(columns, editingId)
              t == TaskAt(columns, p)
          IN  /\ Pushed.id = editingId
              /\ Pushed.status = form.status
              /\ [columns' EXCEPT ![form.status] = SubSeq(@, 1, Len(@) - 1)]
                   = [columns EXCEPT ![p[1]] = RemoveAt(@, p[2])]
              /\ form.status = p[1] => TimerFields(Pushed) = TimerFields(t)
      ]_vars

----------------------------------------------------------------------------
(* C30 *)

\* C30: every task of the Doing bucket has isRunning = true and a non-null
\* startedAt, however it came there, and a task is running if and only if its
\* status is Doing.
DoingTasksAreRunning ==
    \A p \in Positions(columns) :
        LET t == TaskAt(columns, p)
        IN  /\ p[1] = "Doing"
                => (IsRunning(t) /\ HasStartedAt(t))
            /\ IsRunning(t) <=> t.status = "Doing"

====
